---- MODULE Spec2Model ----
(***************************************************************************)
(* Model of the lead-enrichment server (src/unnamed/part_000) and of the   *)
(* bulk-export server (src/server.js, whose two routes are repeated        *)
(* verbatim in part_000):                                                  *)
(*   POST /upload            grouped limiter, enrichment loop, publish     *)
(*   GET  /export-leads      paginated export of the Leads table           *)
(*   GET  /poc-level-exports paginated export of the POC-Data table        *)
(* JavaScript strings are sequences of one-character strings, so that      *)
(* parseInt and the regular expression of cleanPhoneNumber are computed    *)
(* character by character.                                                 *)
(***************************************************************************)
EXTENDS Integers, Sequences, FiniteSets, Bags, TLC

(***************************************************************************)
(* Bounds of the model.                                                    *)
(***************************************************************************)
MaxPhoneLen == 3    \* longest generated phone string
MaxLimitLen == 2    \* longest `limit` form field
MaxFileRows == 2    \* most data lines of an uploaded file
MaxInitObjs == 3    \* most objects a bucket holds when a publish begins
MaxTick == 1        \* the clock stops MaxTick ticks after MaxInitObjs + 1
MaxRequests == 2    \* most requests that follow one that has ended

(***************************************************************************)
(* Program constants.                                                      *)
(***************************************************************************)
ListLimit == 100    \* list("", { limit: 100 })
KeepCount == 3      \* .slice(3)
pageSize == 1000    \* const pageSize = 1000

(***************************************************************************)
(* JavaScript values.  A value is a record [t, s, et]: t is the typeof     *)
(* class, s the characters of a string (the digits of a number), and, for  *)
(* an array, et and s describe its first element ("empty" when it has      *)
(* none).                                                                  *)
(***************************************************************************)
Digits == {"0", "1", "2", "3", "4", "5", "6", "7", "8", "9"}

JsString(s) == [t |-> "string", s |-> s, et |-> "-"]
JsNumber(s) == [t |-> "number", s |-> s, et |-> "-"]
JsUndefined == [t |-> "undefined", s |-> <<>>, et |-> "-"]
JsNull == [t |-> "null", s |-> <<>>, et |-> "-"]
JsArray(first) == [t |-> "array", s |-> first.s, et |-> first.t]
JsEmptyArray == [t |-> "array", s |-> <<>>, et |-> "empty"]

\* ToBoolean: undefined, null, "" and 0 are falsy; arrays are truthy
Truthy(v) ==
    CASE v.t = "string" -> v.s # <<>>
      [] v.t = "number" -> v.s # <<"0">>
      [] v.t \in {"undefined", "null"} -> FALSE
      [] OTHER -> TRUE

NotFound == <<"N", "o", "t", " ", "F", "o", "u", "n", "d">>
ErrorText == <<"E", "r", "r", "o", "r">>

\* all sequences over S of length at most n
RECURSIVE SeqsUpTo(_, _)
SeqsUpTo(S, n) ==
    IF n = 0 THEN {<<>>}
    ELSE LET shorter == SeqsUpTo(S, n - 1)
         IN shorter \cup {Append(s, c) : s \in {x \in shorter : Len(x) = n - 1}, c \in S}

(***************************************************************************)
(* cleanPhoneNumber (part_000:40-46)                                       *)
(***************************************************************************)
\* the complement of the character class [^\d+]
KeptByRegex(c) == c \in Digits \/ c = "+"

\* mutant: the flag g is missing, only the first match is removed
ReplaceFirstOnly(s) ==
    LET bad == {i \in 1..Len(s) : ~KeptByRegex(s[i])}
    IN IF bad = {} THEN s
       ELSE LET k == CHOOSE i \in bad : \A j \in bad : i <= j
            IN SubSeq(s, 1, k - 1) \o SubSeq(s, k + 1, Len(s))

\* phone.replace(/[^\d+]/g, "")
ReplaceNonPhone(s) == SelectSeq(s, KeptByRegex)

cleanPhoneNumber(phone) ==
    LET p == IF phone.t = "array" /\ phone.et # "empty"
             THEN [t |-> phone.et, s |-> phone.s, et |-> "-"]
             ELSE phone
    IN IF p.t = "string" THEN ReplaceNonPhone(p.s) ELSE ErrorText

\* cleanPhoneNumber(rawPhone || "Not Found")  (part_000:185-186)
EnrichPhone(rawPhone) ==
    cleanPhoneNumber(IF Truthy(rawPhone) THEN rawPhone ELSE JsString(NotFound))

(***************************************************************************)
(* parseInt(req.body.limit) and the guard !limit  (part_000:144-145)       *)
(* The result is [nan, val]; val is meaningless when nan holds.            *)
(***************************************************************************)
DigitVal(c) ==
    CASE c = "0" -> 0 [] c = "1" -> 1 [] c = "2" -> 2 [] c = "3" -> 3
      [] c = "4" -> 4 [] c = "5" -> 5 [] c = "6" -> 6 [] c = "7" -> 7
      [] c = "8" -> 8 [] c = "9" -> 9

RECURSIVE SkipSpaces(_)
SkipSpaces(s) == IF s # <<>> /\ Head(s) = " " THEN SkipSpaces(Tail(s)) ELSE s

\* value of the longest prefix of digits, acc being the value read so far
RECURSIVE DigitPrefix(_, _)
DigitPrefix(s, acc) ==
    IF s # <<>> /\ Head(s) \in Digits
    THEN DigitPrefix(Tail(s), 10 * acc + DigitVal(Head(s)))
    ELSE acc

parseInt(str) ==
    LET t == SkipSpaces(str)
        neg == t # <<>> /\ Head(t) = "-"
        u == IF t # <<>> /\ Head(t) \in {"-", "+"} THEN Tail(t) ELSE t
    IN IF u = <<>> \/ Head(u) \notin Digits
       THEN [nan |-> TRUE, val |-> 0]
       ELSE [nan |-> FALSE,
             val |-> IF neg THEN 0 - DigitPrefix(u, 0) ELSE DigitPrefix(u, 0)]

\* !limit : NaN and 0 are falsy
LimitFalsy(limit) == limit.nan \/ limit.val = 0

\* a limit that is not a positive integer: NaN, zero or negative
LimitNotPositive(limit) == limit.nan \/ limit.val <= 0

(***************************************************************************)
(* The limiter query (part_000:163-173):                                   *)
(*   SELECT * FROM (SELECT *, ROW_NUMBER() OVER                            *)
(*     (PARTITION BY company ORDER BY linkedin) as rn FROM uploaded)       *)
(*   WHERE rn <= ${limit}                                                  *)
(* A row of the table is [company, linkedin, line]; line is its position   *)
(* in the file and stands for its other columns.  linkedin values are      *)
(* numbers ordered as the URLs are.  ROW_NUMBER breaks ties of linkedin    *)
(* arbitrarily and the query has no outer ORDER BY, so the result is any   *)
(* of the sequences below.                                                 *)
(***************************************************************************)
Companies == {"A", "B"}
Linkedins == {1, 2}

Files ==
    {[i \in 1..Len(f) |-> [company |-> f[i][1], linkedin |-> f[i][2], line |-> i]] :
        f \in SeqsUpTo(Companies \X Linkedins, MaxFileRows)}

Partition(uploaded, i) ==
    {j \in 1..Len(uploaded) : uploaded[j].company = uploaded[i].company}

\* the numberings ROW_NUMBER() may produce
RowNumbers(uploaded) ==
    LET n == Len(uploaded)
    IN {rn \in [1..n -> 1..n] :
          \A i \in 1..n :
             /\ rn[i] <= Cardinality(Partition(uploaded, i))
             /\ \A j \in Partition(uploaded, i) \ {i} :
                   /\ rn[i] # rn[j]
                   /\ uploaded[i].linkedin < uploaded[j].linkedin => rn[i] < rn[j]}

\* the orderings of a set of positions
Orderings(S) ==
    {s \in [1..Cardinality(S) -> S] : \A a, b \in 1..Cardinality(S) : a # b => s[a] # s[b]}

\* the result rows in the order o of table positions, each with its rn
Numbered(uploaded, rn, o) ==
    [k \in 1..Len(o) |->
        [company |-> uploaded[o[k]].company, linkedin |-> uploaded[o[k]].linkedin,
         line |-> uploaded[o[k]].line, rn |-> rn[o[k]]]]

LimiterOutputs(uploaded, limit) ==
    UNION {{Numbered(uploaded, rn, o) :
               o \in Orderings({i \in 1..Len(uploaded) : rn[i] <= limit})} :
            rn \in RowNumbers(uploaded)}

(***************************************************************************)
(* State.                                                                  *)
(***************************************************************************)
VARIABLES
    \* POST /upload, one entry per request
    pc,          \* where the handler of the request stands
    req,         \* the form fields: [limit, file]
    limited,     \* const limited: the rows the limiter query returned
    results,     \* const results
    issued,      \* the rows axios.post was called for, in call order
    outcomes,    \* what each resolved lookup returned
    inflight,    \* lookups sent and not yet resolved
    fileName,    \* const fileName
    publicUrl,   \* publicData.publicUrl
    listData,    \* const listData: the objects the listing returned
    sorted,      \* const sorted: the names the prune loop has still to remove
    pruneFailed, \* the names whose remove in the prune loop returned an error
    response,    \* the responses sent on res
    calls,       \* how often the request ran the query and called upload
    \* object storage and timers, shared by all routes
    buckets,     \* bucket name -> set of objects [name, created, owner]
    timers,      \* pending 60 s timers: [bucket, name]
    now,         \* Date.now()
    stamp,       \* the last created_at the storage service assigned
    gone,        \* the names a timer has removed
    fired,       \* bag of the timers whose callback has called remove
    served,      \* requests that have ended and been followed by another
    \* GET /export-leads and GET /poc-level-exports, one entry per route
    xpc, xreq, page, csvParts, headersWritten, xfileName, xresponse, xlog,
    xcalls,      \* the pages the request has fetched, how often it called upload
    \* harness of the pure functions
    fpc, phoneIn, phoneOut, qLimit, qRows, qOut

loopVars == <<limited, results, issued, outcomes, inflight>>
publishVars == <<fileName, publicUrl, listData, sorted, pruneFailed>>
uploadVars == <<pc, req, response, calls, loopVars, publishVars>>
storeVars == <<buckets, timers, now, stamp, gone, fired, served>>
exportVars ==
    <<xpc, xreq, page, csvParts, headersWritten, xfileName, xresponse, xlog, xcalls>>
fnVars == <<fpc, phoneIn, phoneOut, qLimit, qRows, qOut>>
vars == <<uploadVars, storeVars, exportVars, fnVars>>

Reqs == {1, 2}
Routes == {"leads", "poc"}
UploadBucket == "hatch-exports"
BucketOf(route) == IF route = "leads" THEN "leadexports" ELSE "poclevelexports"
BucketNames == {UploadBucket, "leadexports", "poclevelexports"}

\* the state of each part before anything has happened in it
UploadIdle ==
    /\ pc = [r \in Reqs |-> "idle"]
    /\ req = [r \in Reqs |-> [limit |-> <<>>, file |-> FALSE]]
    /\ limited = [r \in Reqs |-> <<>>]
    /\ results = [r \in Reqs |-> <<>>]
    /\ issued = [r \in Reqs |-> <<>>]
    /\ outcomes = [r \in Reqs |-> <<>>]
    /\ inflight = [r \in Reqs |-> 0]
    /\ fileName = [r \in Reqs |-> 0]
    /\ publicUrl = [r \in Reqs |-> 0]
    /\ listData = [r \in Reqs |-> {}]
    /\ sorted = [r \in Reqs |-> <<>>]
    /\ pruneFailed = [r \in Reqs |-> {}]
    /\ response = [r \in Reqs |-> <<>>]
    /\ calls = [r \in Reqs |-> [query |-> 0, upload |-> 0]]

StoreEmpty ==
    /\ buckets = [b \in BucketNames |-> {}]
    /\ timers = {}
    /\ now = 1
    /\ stamp = 0
    /\ gone = {}
    /\ fired = EmptyBag
    /\ served = 0

ExportIdle ==
    /\ xpc = [x \in Routes |-> "idle"]
    /\ xreq = [x \in Routes |-> [client |-> "", matching |-> 0]]
    /\ page = [x \in Routes |-> 0]
    /\ csvParts = [x \in Routes |-> <<>>]
    /\ headersWritten = [x \in Routes |-> FALSE]
    /\ xfileName = [x \in Routes |-> 0]
    /\ xresponse = [x \in Routes |-> <<>>]
    /\ xlog = [x \in Routes |-> <<>>]
    /\ xcalls = [x \in Routes |-> [fetch |-> <<>>, upload |-> 0]]

FnIdle ==
    /\ fpc = "idle"
    /\ phoneIn = JsUndefined
    /\ phoneOut = <<>>
    /\ qLimit = <<>>
    /\ qRows = <<>>
    /\ qOut = <<>>

(***************************************************************************)
(* SpecPhone: cleanPhoneNumber and the enrichment expression applied to    *)
(* every phone payload within the bound.                                   *)
(***************************************************************************)
PhoneChars == {"+", "4", " ", "("}
ExamplePhone ==
    <<"+", "1", " ", "(", "4", "1", "5", ")", " ", "5", "5", "5", "-", "0", "1", "0", "0">>
PhoneStrings == SeqsUpTo(PhoneChars, MaxPhoneLen) \cup {ExamplePhone, NotFound}
Scalars ==
    {JsString(s) : s \in PhoneStrings}
        \cup {JsNumber(<<"0">>), JsNumber(<<"4">>), JsUndefined, JsNull}
RawPhones == Scalars \cup {JsArray(v) : v \in Scalars} \cup {JsEmptyArray}

InitPhone ==
    /\ UploadIdle /\ StoreEmpty /\ ExportIdle
    /\ fpc = "in"
    /\ phoneIn \in RawPhones
    /\ phoneOut = <<>>
    /\ qLimit = <<>> /\ qRows = <<>> /\ qOut = <<>>

\* a call cleanPhoneNumber(phoneIn)
Clean ==
    /\ fpc = "in"
    /\ phoneOut' = cleanPhoneNumber(phoneIn)
    /\ fpc' = "cleaned"
    /\ UNCHANGED <<phoneIn, qLimit, qRows, qOut, uploadVars, storeVars, exportVars>>

\* response.data.phone = phoneIn at part_000:185-186
Enrich ==
    /\ fpc = "in"
    /\ phoneOut' = EnrichPhone(phoneIn)
    /\ fpc' = "enriched"
    /\ UNCHANGED <<phoneIn, qLimit, qRows, qOut, uploadVars, storeVars, exportVars>>

NextPhone == Clean \/ Enrich
SpecPhone == InitPhone /\ [][NextPhone]_vars

(***************************************************************************)
(* C10 as claimed: for a string, cleanPhoneNumber removes every character  *)
(* that is not a digit or a leading "+", so the result is digits only,     *)
(* optionally preceded by one "+" at position 0.                           *)
(***************************************************************************)
RECURSIVE StripButLeadingPlus(_, _)
StripButLeadingPlus(s, i) ==
    IF i > Len(s) THEN <<>>
    ELSE (IF s[i] \in Digits \/ (s[i] = "+" /\ i = 1) THEN <<s[i]>> ELSE <<>>)
             \o StripButLeadingPlus(s, i + 1)

C10_LeadingPlusOnly ==
    (fpc = "cleaned" /\ phoneIn.t = "string") =>
        /\ phoneOut = StripButLeadingPlus(phoneIn.s, 1)
        /\ \A i \in 2..Len(phoneOut) : phoneOut[i] \in Digits

(***************************************************************************)
(* C10 amended: for a string, cleanPhoneNumber returns the input with      *)
(* every character removed that is neither a digit nor a "+", wherever the *)
(* "+" stands: the result is the digits and "+" signs of the input in      *)
(* their order.                                                            *)
(***************************************************************************)
RECURSIVE DigitsAndPlus(_)
DigitsAndPlus(s) ==
    IF s = <<>> THEN <<>>
    ELSE IF Head(s) \in Digits \cup {"+"}
         THEN <<Head(s)>> \o DigitsAndPlus(Tail(s))
         ELSE DigitsAndPlus(Tail(s))

C10_DigitsAndPlusKept ==
    (fpc = "cleaned" /\ phoneIn.t = "string") =>
        /\ phoneOut = DigitsAndPlus(phoneIn.s)
        /\ \A i \in 1..Len(phoneOut) : phoneOut[i] \in Digits \cup {"+"}

\* the example of the specification, and an inner "+" that is kept
C10_Witness ==
    \/ /\ fpc = "cleaned"
       /\ phoneIn = JsString(ExamplePhone)
       /\ phoneOut = <<"+", "1", "4", "1", "5", "5", "5", "5", "0", "1", "0", "0">>
    \/ /\ fpc = "cleaned"
       /\ phoneIn = JsString(<<"4", " ", "+">>)
       /\ phoneOut = <<"4", "+">>

(***************************************************************************)
(* SpecLimiter: the validation of `limit` and the limiter query applied    *)
(* to every file and every form field within the bounds.                   *)
(***************************************************************************)
LimitChars == {" ", "-", "0", "1", "2", "a"}
LimitInputs == SeqsUpTo(LimitChars, MaxLimitLen)

InitLimiter ==
    /\ UploadIdle /\ StoreEmpty /\ ExportIdle
    /\ fpc = "in"
    /\ phoneIn = JsUndefined /\ phoneOut = <<>>
    /\ qLimit \in LimitInputs
    /\ qRows \in Files
    /\ qOut = <<>>

\* part_000:144-145 for a request that carries a file
Validate ==
    /\ fpc = "in"
    /\ fpc' = IF LimitFalsy(parseInt(qLimit)) THEN "rejected" ELSE "accepted"
    /\ UNCHANGED <<phoneIn, phoneOut, qLimit, qRows, qOut, uploadVars, storeVars, exportVars>>

\* part_000:163-173 on the table read from the file
Query ==
    /\ fpc = "accepted"
    /\ qOut' \in LimiterOutputs(qRows, parseInt(qLimit).val)
    /\ fpc' = "queried"
    /\ UNCHANGED <<phoneIn, phoneOut, qLimit, qRows, uploadVars, storeVars, exportVars>>

NextLimiter == Validate \/ Query
SpecLimiter == InitLimiter /\ [][NextLimiter]_vars

\* the rows of company g in the table, and in the query result
TableRows(g) == {i \in 1..Len(qRows) : qRows[i].company = g}
KeptLines(g) == {qOut[k].line : k \in {j \in 1..Len(qOut) : qOut[j].company = g}}
Min(a, b) == IF a <= b THEN a ELSE b

\* the statement of C1 for the limit N
GroupedLimit(N) ==
    \A g \in Companies :
        /\ Cardinality({k \in 1..Len(qOut) : qOut[k].company = g}) <= N
        /\ Cardinality(KeptLines(g)) = Cardinality({k \in 1..Len(qOut) : qOut[k].company = g})
        /\ KeptLines(g) \subseteq TableRows(g)
        /\ Cardinality(KeptLines(g)) = Min(N, Cardinality(TableRows(g)))
        /\ \A i \in KeptLines(g), j \in TableRows(g) \ KeptLines(g) :
              qRows[i].linkedin <= qRows[j].linkedin

(***************************************************************************)
(* C1: for every accepted limit N and every company G, the rows handed to  *)
(* enrichment hold at most N rows of G, and they are the N rows of G that  *)
(* come first in ascending order of linkedin (all of G when it has fewer). *)
(***************************************************************************)
C1_GroupedLimit == fpc = "queried" => GroupedLimit(parseInt(qLimit).val)

\* the same for the limits the specification allows, the positive ones
C1_GroupedLimitPositive ==
    (fpc = "queried" /\ parseInt(qLimit).val > 0) => GroupedLimit(parseInt(qLimit).val)

(***************************************************************************)
(* Object storage (supabase.storage.from(bucket)).  An object is           *)
(* [name, created, owner]: names of the upload route are the Date.now()    *)
(* value in hatch_result_<ms>.csv, created is the created_at the service   *)
(* assigns, owner the request whose rows the object holds (0 for an        *)
(* object that was there before the run).                                  *)
(***************************************************************************)
Status(code) == [status |-> code, url |-> 0]
RedirectTo(url) == [status |-> 302, url |-> url]

\* upload(name, buffer, { upsert: true }): a new object, or new content
\* under an existing name, whose created_at stays
Upserted(bucket, name, owner) ==
    IF \E o \in bucket : o.name = name
    THEN {IF o.name = name THEN [o EXCEPT !.owner = owner] ELSE o : o \in bucket}
    ELSE bucket \cup {[name |-> name, created |-> stamp + 1, owner |-> owner]}

\* list("", { limit: 100 }): the first 100 objects by name
Listed(bucket) ==
    {o \in bucket : Cardinality({q \in bucket : q.name < o.name}) < ListLimit}

\* .sort((a, b) => new Date(b.created_at) - new Date(a.created_at)); the
\* sort is stable, so equal dates stay in the order of the listing
RECURSIVE SortNewestFirst(_)
SortNewestFirst(S) ==
    IF S = {} THEN <<>>
    ELSE LET first == CHOOSE o \in S :
                 \A q \in S \ {o} :
                     \/ o.created > q.created
                     \/ (o.created = q.created /\ o.name < q.name)
         IN <<first>> \o SortNewestFirst(S \ {first})

\* the ascending sort, used by the mutant below
RECURSIVE SortOldestFirst(_)
SortOldestFirst(S) ==
    IF S = {} THEN <<>>
    ELSE LET first == CHOOSE o \in S :
                 \A q \in S \ {o} :
                     \/ o.created < q.created
                     \/ (o.created = q.created /\ o.name < q.name)
         IN <<first>> \o SortOldestFirst(S \ {first})

\* mutant: the listing is sorted ascending, so the newest objects are cut
BeyondKeptAscending(listing) ==
    LET s == SortOldestFirst(listing)
    IN [k \in 1..(IF Len(s) > KeepCount THEN Len(s) - KeepCount ELSE 0) |->
           s[k + KeepCount].name]

\* .slice(3) of the sorted listing, as names
BeyondKept(listing) ==
    LET s == SortNewestFirst(listing)
    IN [k \in 1..(IF Len(s) > KeepCount THEN Len(s) - KeepCount ELSE 0) |->
           s[k + KeepCount].name]

\* remove([name])
Removed(bucket, name) == {o \in bucket : o.name # name}

(***************************************************************************)
(* POST /upload (part_000:143-196) and exportCSVAndUpload (part_000:49-140)*)
(***************************************************************************)
\* what a lookup may answer: the call throws (transport error, timeout,
\* error status), or response.data.phone is one of these values
LookupPayloads ==
    {JsUndefined, JsNull, JsString(<<>>), JsString(<<"+", "4", " ", "4">>),
     JsNumber(<<"4">>), JsArray(JsString(<<"4">>)), JsArray(JsNumber(<<"4">>)),
     JsEmptyArray}
LookupOutcomes ==
    {[ok |-> FALSE, phone |-> JsUndefined]} \cup {[ok |-> TRUE, phone |-> v] : v \in LookupPayloads}

\* part_000:143-148: the request arrives with its form fields
Arrive(r) ==
    /\ pc[r] = "idle"
    /\ \E limit \in LimitInputs, file \in BOOLEAN :
          /\ req' = [req EXCEPT ![r] = [limit |-> limit, file |-> file]]
          /\ IF LimitFalsy(parseInt(limit)) \/ ~file
             THEN /\ response' = [response EXCEPT ![r] = Append(@, Status(400))]
                  /\ pc' = [pc EXCEPT ![r] = "done"]
             ELSE /\ pc' = [pc EXCEPT ![r] = "read"]
                  /\ UNCHANGED response
    /\ UNCHANGED <<calls, loopVars, publishVars, storeVars, exportVars, fnVars>>

\* part_000:150-152: the read stream or the parser emits 'error'; no
\* listener is attached, the 'end' callback never runs and nothing answers
ReadFail(r) ==
    /\ pc[r] = "read"
    /\ pc' = [pc EXCEPT ![r] = "unhandled"]
    /\ UNCHANGED <<req, response, calls, loopVars, publishVars, storeVars, exportVars,
                   fnVars>>

\* part_000:153-173: 'end': the table is created and the limiter query
\* runs on the file; a rejected query (a file without the column company,
\* say) is an unhandled rejection of the callback.  The form field is not
\* read again after the query.
DedupQuery(r) ==
    /\ pc[r] = "read"
    /\ calls' = [calls EXCEPT ![r].query = @ + 1]
    /\ \/ /\ pc' = [pc EXCEPT ![r] = "unhandled"]
          /\ UNCHANGED <<req, limited>>
       \/ \E file \in Files :
             /\ limited' \in {[limited EXCEPT ![r] = out] :
                                 out \in LimiterOutputs(file, parseInt(req[r].limit).val)}
             /\ req' = [req EXCEPT ![r] = [limit |-> <<>>, file |-> TRUE]]
             /\ pc' = [pc EXCEPT ![r] = "loop"]
    /\ UNCHANGED <<response, results, issued, outcomes, inflight, publishVars, storeVars,
                   exportVars, fnVars>>

\* mutant: the lookups are sent without awaiting the previous one
LookupStartUnawaited(r) ==
    /\ pc[r] \in {"loop", "lookup"}
    /\ Len(issued[r]) < Len(limited[r])
    /\ issued' = [issued EXCEPT ![r] = Append(@, limited[r][Len(issued[r]) + 1])]
    /\ inflight' = [inflight EXCEPT ![r] = @ + 1]
    /\ pc' = [pc EXCEPT ![r] = "lookup"]
    /\ UNCHANGED <<req, response, calls, limited, results, outcomes, publishVars,
                   storeVars, exportVars, fnVars>>

\* part_000:176-183: the next iteration calls axios.post for its row
LookupStart(r) ==
    /\ pc[r] = "loop"
    /\ Len(results[r]) < Len(limited[r])
    /\ issued' = [issued EXCEPT ![r] = Append(@, limited[r][Len(results[r]) + 1])]
    /\ inflight' = [inflight EXCEPT ![r] = @ + 1]
    /\ pc' = [pc EXCEPT ![r] = "lookup"]
    /\ UNCHANGED <<req, response, calls, limited, results, outcomes, publishVars,
                   storeVars, exportVars, fnVars>>

\* let phone = "Not Found"; try { ... phone = cleanPhoneNumber(rawPhone ||
\* "Not Found") } catch (err) { console.error }  (part_000:177-189)
PhoneOf(outcome) == IF outcome.ok THEN EnrichPhone(outcome.phone) ELSE NotFound

\* mutant: no try/catch, a failed lookup rejects the callback
LookupResolveUncaught(r) ==
    /\ pc[r] = "lookup"
    /\ \E outcome \in LookupOutcomes :
          /\ outcomes' = [outcomes EXCEPT ![r] = Append(@, outcome)]
          /\ IF outcome.ok
             THEN /\ results' = [results EXCEPT ![r] =
                         Append(@, [row |-> limited[r][Len(results[r]) + 1],
                                    phonenumber |-> PhoneOf(outcome)])]
                  /\ pc' = [pc EXCEPT ![r] = "loop"]
             ELSE /\ pc' = [pc EXCEPT ![r] = "unhandled"]
                  /\ UNCHANGED results
    /\ inflight' = [inflight EXCEPT ![r] = @ - 1]
    /\ UNCHANGED <<req, response, calls, limited, issued, publishVars, storeVars,
                   exportVars, fnVars>>

\* part_000:184-191: the awaited call settles and the row is pushed
LookupResolve(r) ==
    /\ pc[r] = "lookup"
    /\ \E outcome \in LookupOutcomes :
          /\ outcomes' = [outcomes EXCEPT ![r] = Append(@, outcome)]
          /\ results' = [results EXCEPT ![r] =
                 Append(@, [row |-> limited[r][Len(results[r]) + 1],
                            phonenumber |-> PhoneOf(outcome)])]
    /\ inflight' = [inflight EXCEPT ![r] = @ - 1]
    /\ pc' = [pc EXCEPT ![r] = "loop"]
    /\ UNCHANGED <<req, response, calls, limited, issued, publishVars, storeVars,
                   exportVars, fnVars>>

\* part_000:194, 49-63, 136: the loop is over, exportCSVAndUpload maps the
\* results and starts writing them to the temporary file
LoopEnd(r) ==
    /\ pc[r] = "loop"
    /\ Len(results[r]) = Len(limited[r])
    /\ pc' = [pc EXCEPT ![r] = "write"]
    /\ UNCHANGED <<req, response, calls, loopVars, publishVars, storeVars, exportVars,
                   fnVars>>

\* part_000:65-68: 'finish' of the write stream: the file is read back and
\* the artifact named.  A failing write stream emits 'error', which has no
\* listener; a failing readFileSync is caught at part_000:130-133.  The
\* rows are in the file from here on and are not referenced again.
WriteFinish(r) ==
    /\ pc[r] = "write"
    /\ \/ /\ pc' = [pc EXCEPT ![r] = "unhandled"]
          /\ UNCHANGED <<fileName, response>>
       \/ /\ response' = [response EXCEPT ![r] = Append(@, Status(500))]
          /\ pc' = [pc EXCEPT ![r] = "done"]
          /\ UNCHANGED fileName
       \/ /\ fileName' = [fileName EXCEPT ![r] = now]
          /\ pc' = [pc EXCEPT ![r] = "upload"]
          /\ UNCHANGED response
    /\ limited' = [limited EXCEPT ![r] = <<>>]
    /\ results' = [results EXCEPT ![r] = <<>>]
    /\ issued' = [issued EXCEPT ![r] = <<>>]
    /\ outcomes' = [outcomes EXCEPT ![r] = <<>>]
    /\ UNCHANGED <<req, calls, inflight, publicUrl, listData, sorted, pruneFailed,
                   storeVars, exportVars, fnVars>>

\* mutant: the 60 s timer is set as soon as the artifact is uploaded
UploadSetsTimer(r) ==
    /\ pc[r] = "upload"
    /\ calls' = [calls EXCEPT ![r].upload = @ + 1]
    /\ \/ /\ response' = [response EXCEPT ![r] = Append(@, Status(500))]
          /\ pc' = [pc EXCEPT ![r] = "done"]
          /\ UNCHANGED <<buckets, stamp, publicUrl, timers>>
       \/ /\ buckets' = [buckets EXCEPT ![UploadBucket] = Upserted(@, fileName[r], r)]
          /\ stamp' = stamp + 1
          /\ \E url \in {fileName[r], 0} : publicUrl' = [publicUrl EXCEPT ![r] = url]
          /\ timers' = timers \cup {[bucket |-> UploadBucket, name |-> fileName[r], by |-> r]}
          /\ pc' = [pc EXCEPT ![r] = "list"]
          /\ UNCHANGED response
    /\ UNCHANGED <<req, loopVars, fileName, listData, sorted, pruneFailed, now,
                   gone, fired, served, exportVars, fnVars>>

\* mutant: after the 500 the handler goes on with the listing
UploadNoReturn(r) ==
    /\ pc[r] = "upload"
    /\ calls' = [calls EXCEPT ![r].upload = @ + 1]
    /\ \/ /\ response' = [response EXCEPT ![r] = Append(@, Status(500))]
          /\ pc' = [pc EXCEPT ![r] = "list"]
          /\ UNCHANGED <<buckets, stamp, publicUrl>>
       \/ /\ buckets' = [buckets EXCEPT ![UploadBucket] = Upserted(@, fileName[r], r)]
          /\ stamp' = stamp + 1
          /\ \E url \in {fileName[r], 0} : publicUrl' = [publicUrl EXCEPT ![r] = url]
          /\ pc' = [pc EXCEPT ![r] = "list"]
          /\ UNCHANGED response
    /\ UNCHANGED <<req, loopVars, fileName, listData, sorted, pruneFailed, timers, now,
                   gone, fired, served, exportVars, fnVars>>

\* part_000:70-84: the upload, then getPublicUrl, whose publicUrl is the
\* artifact's URL (written as its name) or missing (written 0)
Upload(r) ==
    /\ pc[r] = "upload"
    /\ calls' = [calls EXCEPT ![r].upload = @ + 1]
    /\ \/ /\ response' = [response EXCEPT ![r] = Append(@, Status(500))]
          /\ pc' = [pc EXCEPT ![r] = "done"]
          /\ UNCHANGED <<buckets, stamp, publicUrl>>
       \/ /\ buckets' = [buckets EXCEPT ![UploadBucket] = Upserted(@, fileName[r], r)]
          /\ stamp' = stamp + 1
          /\ \E url \in {fileName[r], 0} : publicUrl' = [publicUrl EXCEPT ![r] = url]
          /\ pc' = [pc EXCEPT ![r] = "list"]
          /\ UNCHANGED response
    /\ UNCHANGED <<req, loopVars, fileName, listData, sorted, pruneFailed, timers, now,
                   gone, fired, served, exportVars, fnVars>>

\* part_000:86-92: the listing; on an error listData is null, listData.sort
\* throws and the catch at part_000:130-133 answers 500
List(r) ==
    /\ pc[r] = "list"
    /\ \/ /\ response' = [response EXCEPT ![r] = Append(@, Status(500))]
          /\ pc' = [pc EXCEPT ![r] = "done"]
          /\ UNCHANGED <<listData, sorted>>
       \/ /\ listData' = [listData EXCEPT ![r] = Listed(buckets[UploadBucket])]
          /\ sorted' = [sorted EXCEPT ![r] = BeyondKept(Listed(buckets[UploadBucket]))]
          /\ pc' = [pc EXCEPT ![r] = "prune"]
          /\ UNCHANGED response
    /\ UNCHANGED <<req, calls, loopVars, fileName, publicUrl, pruneFailed, storeVars,
                   exportVars, fnVars>>

\* mutant: the loop is left after its first remove
RemoveOnlyFirst(r) ==
    /\ pc[r] = "prune"
    /\ sorted[r] # <<>>
    /\ \/ /\ buckets' = [buckets EXCEPT ![UploadBucket] = Removed(@, Head(sorted[r]))]
          /\ UNCHANGED pruneFailed
       \/ /\ pruneFailed' = [pruneFailed EXCEPT ![r] = @ \cup {Head(sorted[r])}]
          /\ UNCHANGED buckets
    /\ sorted' = [sorted EXCEPT ![r] = <<>>]
    /\ UNCHANGED <<pc, req, response, calls, loopVars, fileName, publicUrl, listData,
                   timers, now, stamp, gone, fired, served, exportVars, fnVars>>

\* part_000:94-96: one remove of the loop; its result is not looked at, so
\* a failed remove leaves the object and the loop goes on
Remove(r) ==
    /\ pc[r] = "prune"
    /\ sorted[r] # <<>>
    /\ \/ /\ buckets' = [buckets EXCEPT ![UploadBucket] = Removed(@, Head(sorted[r]))]
          /\ UNCHANGED pruneFailed
       \/ /\ pruneFailed' = [pruneFailed EXCEPT ![r] = @ \cup {Head(sorted[r])}]
          /\ UNCHANGED buckets
    /\ sorted' = [sorted EXCEPT ![r] = Tail(@)]
    /\ UNCHANGED <<pc, req, response, calls, loopVars, fileName, publicUrl, listData,
                   timers, now, stamp, gone, fired, served, exportVars, fnVars>>

\* part_000:98-129: the redirect, then the 60 s timer is set (the timer
\* that unlinks the two local files is not modelled)
Redirect(r) ==
    /\ pc[r] = "prune"
    /\ sorted[r] = <<>>
    /\ response' = [response EXCEPT ![r] = Append(@, RedirectTo(publicUrl[r]))]
    /\ timers' = timers \cup {[bucket |-> UploadBucket, name |-> fileName[r], by |-> r]}
    /\ pc' = [pc EXCEPT ![r] = "done"]
    /\ UNCHANGED <<req, calls, loopVars, publishVars, buckets, now, stamp, gone, fired,
                   served, exportVars, fnVars>>

\* mutant: the callback calls remove only while the artifact is there
TimerFireIfPresent ==
    \E t \in timers :
        /\ \E o \in buckets[t.bucket] : o.name = t.name
        /\ timers' = timers \ {t}
        /\ fired' = fired (+) SetToBag({t})
        /\ \/ /\ buckets' = [buckets EXCEPT ![t.bucket] = Removed(@, t.name)]
              /\ gone' = gone \cup {t.name}
           \/ UNCHANGED <<buckets, gone>>
        /\ UNCHANGED <<uploadVars, now, stamp, served, exportVars, fnVars>>

\* part_000:119-129: a timer fires; a failed remove is logged only
TimerFire ==
    \E t \in timers :
        /\ timers' = timers \ {t}
        /\ fired' = fired (+) SetToBag({t})
        /\ \/ /\ buckets' = [buckets EXCEPT ![t.bucket] = Removed(@, t.name)]
              /\ gone' = gone \cup {t.name}
           \/ UNCHANGED <<buckets, gone>>
        /\ UNCHANGED <<uploadVars, now, stamp, served, exportVars, fnVars>>

\* a millisecond passes
Tick ==
    /\ now < MaxInitObjs + 1 + MaxTick
    /\ now' = now + 1
    /\ UNCHANGED <<uploadVars, buckets, timers, stamp, gone, fired, served, exportVars,
                   fnVars>>

\* artifacts left by earlier requests: k objects named and created 1..k
Preexisting(k) == {[name |-> i, created |-> i, owner |-> 0] : i \in 1..k}

(***************************************************************************)
(* Spec: one /upload request served by a server that has just started on   *)
(* a bucket holding MaxInitObjs artifacts.                                 *)
(***************************************************************************)
Init ==
    /\ UploadIdle /\ ExportIdle /\ FnIdle
    /\ buckets = [b \in BucketNames |->
                     IF b = UploadBucket THEN Preexisting(MaxInitObjs) ELSE {}]
    /\ timers = {}
    /\ now = MaxInitObjs + 1
    /\ stamp = MaxInitObjs
    /\ gone = {}
    /\ fired = EmptyBag
    /\ served = 0

Next ==
    \/ Arrive(1) \/ ReadFail(1) \/ DedupQuery(1)
    \/ LookupStart(1) \/ LookupResolve(1) \/ LoopEnd(1)
    \/ WriteFinish(1) \/ Upload(1) \/ List(1) \/ Remove(1) \/ Redirect(1)
    \/ TimerFire

Spec == Init /\ [][Next]_vars

(***************************************************************************)
(* SpecPublish: exportCSVAndUpload from the moment the rows are being      *)
(* written, on a bucket that holds up to MaxInitObjs earlier artifacts,    *)
(* the most recent of which may still have their 60 s timers pending.  No  *)
(* other request publishes.                                                *)
(***************************************************************************)
PublishStart ==
    /\ pc = [r \in Reqs |-> IF r = 1 THEN "write" ELSE "idle"]
    /\ req = [r \in Reqs |-> [limit |-> <<>>, file |-> r = 1]]
    /\ limited = [r \in Reqs |-> <<>>]
    /\ results = [r \in Reqs |-> <<>>]
    /\ issued = [r \in Reqs |-> <<>>]
    /\ outcomes = [r \in Reqs |-> <<>>]
    /\ inflight = [r \in Reqs |-> 0]
    /\ fileName = [r \in Reqs |-> 0]
    /\ publicUrl = [r \in Reqs |-> 0]
    /\ listData = [r \in Reqs |-> {}]
    /\ sorted = [r \in Reqs |-> <<>>]
    /\ pruneFailed = [r \in Reqs |-> {}]
    /\ response = [r \in Reqs |-> <<>>]
    /\ calls = [r \in Reqs |-> [query |-> IF r = 1 THEN 1 ELSE 0, upload |-> 0]]

\* k earlier artifacts, the j most recent with their timers pending
StoreStart ==
    /\ \E k \in 0..MaxInitObjs, j \in 0..MaxInitObjs :
          /\ j <= k
          /\ buckets = [b \in BucketNames |->
                           IF b = UploadBucket THEN Preexisting(k) ELSE {}]
          /\ timers = {[bucket |-> UploadBucket, name |-> i, by |-> 0] :
                          i \in (k - j + 1)..k}
          /\ now = k + 1
          /\ stamp = k
    /\ gone = {}
    /\ fired = EmptyBag
    /\ served = 0

InitPublish == ExportIdle /\ FnIdle /\ PublishStart /\ StoreStart

NextPublish ==
    \/ WriteFinish(1) \/ Upload(1) \/ List(1) \/ Remove(1) \/ Redirect(1)
    \/ TimerFire \/ Tick

SpecPublish == InitPublish /\ [][NextPublish]_vars

(***************************************************************************)
(* GET /export-leads (part_000:197-311, server.js:21-135) and              *)
(* GET /poc-level-exports (part_000:313-422, server.js:137-246).  The two  *)
(* routes differ in the table, the bucket and the handling of an empty     *)
(* result.  The rows that match client_id are numbered 1..matching in the  *)
(* order the datastore returns them; a part of csvParts is 0 for the       *)
(* header row and i for row i.                                             *)
(***************************************************************************)
MaxPages == 2    \* the tables hold up to MaxPages full pages and one row

MatchCounts ==
    {n \in {p * pageSize + d : p \in 0..MaxPages, d \in {-1, 0, 1}} : n >= 0}
ClientIds == {"", "c1"}

\* .range(from, to) on the matching rows
RangeOf(matching, from, to) ==
    [k \in 1..(IF matching > to THEN to - from + 1
               ELSE IF matching > from THEN matching - from ELSE 0) |-> from + k]

\* the catch of the route: console.error, res.status(500).json
ExportFailed(x, cause) ==
    /\ xlog' = [xlog EXCEPT ![x] = Append(@, "error: " \o cause)]
    /\ xresponse' = [xresponse EXCEPT ![x] = Append(@, Status(500))]
    /\ xpc' = [xpc EXCEPT ![x] = "done"]

\* exportLeads warns and returns undefined, and the route's destructuring
\* const { fileName, downloadUrl } = undefined throws a TypeError into the
\* catch of the route (part_000:273-276, 205, 222-225); exportPocLevels
\* throws (part_000:389-391)
EmptyExport(x) ==
    IF x = "leads"
    THEN /\ xlog' = [xlog EXCEPT ![x] = @ \o <<"warn: No data found", "error: TypeError">>]
         /\ xresponse' = [xresponse EXCEPT ![x] = Append(@, Status(500))]
         /\ xpc' = [xpc EXCEPT ![x] = "done"]
    ELSE ExportFailed(x, "No data found")

\* part_000:197-205, 228-237: the request arrives; the artifact is named
\* from the clock before the first page is fetched
ExportArrive(x) ==
    /\ xpc[x] = "idle"
    /\ \E client \in ClientIds, matching \in MatchCounts :
          /\ xreq' = [xreq EXCEPT ![x] = [client |-> client, matching |-> matching]]
          /\ IF client = ""
             THEN /\ xresponse' = [xresponse EXCEPT ![x] = Append(@, Status(400))]
                  /\ xpc' = [xpc EXCEPT ![x] = "done"]
                  /\ UNCHANGED xfileName
             ELSE /\ xfileName' = [xfileName EXCEPT ![x] = now]
                  /\ xpc' = [xpc EXCEPT ![x] = "fetch"]
                  /\ UNCHANGED xresponse
    /\ UNCHANGED <<page, csvParts, headersWritten, xlog, xcalls, uploadVars, storeVars,
                   fnVars>>

\* mutant: the loop goes on until a page comes back empty
FetchUntilEmpty(x) ==
    /\ xpc[x] = "fetch"
    /\ xcalls' = [xcalls EXCEPT ![x].fetch = Append(@, page[x])]
    /\ \/ /\ ExportFailed(x, "fetch")
          /\ UNCHANGED <<page, csvParts, headersWritten>>
       \/ LET from == page[x] * pageSize
              to == from + pageSize - 1
              data == RangeOf(xreq[x].matching, from, to)
              parts == IF Len(data) = 0 THEN csvParts[x]
                       ELSE (IF headersWritten[x] THEN csvParts[x]
                             ELSE Append(csvParts[x], 0)) \o data
          IN /\ csvParts' = [csvParts EXCEPT ![x] = parts]
             /\ headersWritten' = [headersWritten EXCEPT ![x] = @ \/ Len(data) > 0]
             /\ IF Len(data) > 0
                THEN /\ page' = [page EXCEPT ![x] = @ + 1]
                     /\ UNCHANGED <<xpc, xresponse, xlog>>
                ELSE /\ UNCHANGED page
                     /\ IF Len(parts) = 0
                        THEN EmptyExport(x)
                        ELSE /\ xpc' = [xpc EXCEPT ![x] = "upload"]
                             /\ UNCHANGED <<xresponse, xlog>>
    /\ UNCHANGED <<xreq, xfileName, uploadVars, storeVars, fnVars>>

\* part_000:239-276: one pass of the while loop: the page is fetched and
\* appended; the loop is left on an empty or short page, and then the
\* buffer is looked at
Fetch(x) ==
    /\ xpc[x] = "fetch"
    /\ xcalls' = [xcalls EXCEPT ![x].fetch = Append(@, page[x])]
    /\ \/ /\ ExportFailed(x, "fetch")
          /\ UNCHANGED <<page, csvParts, headersWritten>>
       \/ LET from == page[x] * pageSize
              to == from + pageSize - 1
              data == RangeOf(xreq[x].matching, from, to)
              parts == IF Len(data) = 0 THEN csvParts[x]
                       ELSE (IF headersWritten[x] THEN csvParts[x]
                             ELSE Append(csvParts[x], 0)) \o data
          IN /\ csvParts' = [csvParts EXCEPT ![x] = parts]
             /\ headersWritten' = [headersWritten EXCEPT ![x] = @ \/ Len(data) > 0]
             /\ IF Len(data) = pageSize
                THEN /\ page' = [page EXCEPT ![x] = @ + 1]
                     /\ UNCHANGED <<xpc, xresponse, xlog>>
                ELSE /\ UNCHANGED page
                     /\ IF Len(parts) = 0
                        THEN EmptyExport(x)
                        ELSE /\ xpc' = [xpc EXCEPT ![x] = "upload"]
                             /\ UNCHANGED <<xresponse, xlog>>
    /\ UNCHANGED <<xreq, xfileName, uploadVars, storeVars, fnVars>>

\* part_000:282-308, 208-221: the upload (no upsert: an existing name is
\* an error), getPublicUrl, then the redirect and the 60 s timer
ExportUpload(x) ==
    /\ xpc[x] = "upload"
    /\ xcalls' = [xcalls EXCEPT ![x].upload = @ + 1]
    /\ \/ /\ ExportFailed(x, "upload")
          /\ UNCHANGED <<buckets, stamp, timers>>
       \/ /\ \A o \in buckets[BucketOf(x)] : o.name # xfileName[x]
          /\ buckets' = [buckets EXCEPT ![BucketOf(x)] =
                            @ \cup {[name |-> xfileName[x], created |-> stamp + 1,
                                     owner |-> x]}]
          /\ stamp' = stamp + 1
          /\ \/ /\ ExportFailed(x, "url")
                /\ UNCHANGED timers
             \/ /\ xresponse' = [xresponse EXCEPT ![x] = Append(@, RedirectTo(xfileName[x]))]
                /\ timers' = timers \cup
                       {[bucket |-> BucketOf(x), name |-> xfileName[x], by |-> x]}
                /\ xpc' = [xpc EXCEPT ![x] = "done"]
                /\ UNCHANGED xlog
    /\ UNCHANGED <<xreq, page, csvParts, headersWritten, xfileName, uploadVars, now, gone,
                   fired, served, fnVars>>

(***************************************************************************)
(* SpecExport: one request to each export route.                           *)
(***************************************************************************)
InitExport == UploadIdle /\ StoreEmpty /\ ExportIdle /\ FnIdle

NextExport ==
    \/ \E x \in Routes : ExportArrive(x) \/ Fetch(x) \/ ExportUpload(x)
    \/ TimerFire

SpecExport == InitExport /\ [][NextExport]_vars

(***************************************************************************)
(* A server that goes on serving: when the handler of a request has ended, *)
(* a further request is received.                                          *)
(***************************************************************************)
\* no handler is between its first and its last step
Quiet ==
    /\ \A r \in Reqs : pc[r] \in {"idle", "done", "unhandled"}
    /\ \A x \in Routes : xpc[x] \in {"idle", "done", "lost"}

\* part_000:143-194, 49-63, 136: a further POST /upload, accepted and with
\* no row left by the limiter, has gone through the loop and starts
\* writing; the locals of the request that ended before it are gone
NextRequest(r) ==
    /\ pc[r] \in {"done", "unhandled"}
    /\ served < MaxRequests
    /\ served' = served + 1
    /\ pc' = [pc EXCEPT ![r] = "write"]
    /\ req' = [req EXCEPT ![r] = [limit |-> <<>>, file |-> TRUE]]
    /\ response' = [response EXCEPT ![r] = <<>>]
    /\ calls' = [calls EXCEPT ![r] = [query |-> 1, upload |-> 0]]
    /\ fileName' = [fileName EXCEPT ![r] = 0]
    /\ publicUrl' = [publicUrl EXCEPT ![r] = 0]
    /\ listData' = [listData EXCEPT ![r] = {}]
    /\ sorted' = [sorted EXCEPT ![r] = <<>>]
    /\ pruneFailed' = [pruneFailed EXCEPT ![r] = {}]
    /\ UNCHANGED <<loopVars, buckets, timers, now, stamp, gone, fired, exportVars, fnVars>>

\* part_000:197-205, 228-276: on each export route a request for a tenant
\* with one row has named its artifact and fetched the row (one short page)
Fetched ==
    /\ xpc = [x \in Routes |-> "upload"]
    /\ xreq = [x \in Routes |-> [client |-> "c1", matching |-> 1]]
    /\ page = [x \in Routes |-> 0]
    /\ csvParts = [x \in Routes |-> <<0, 1>>]
    /\ headersWritten = [x \in Routes |-> TRUE]
    /\ xfileName = [x \in Routes |-> now]
    /\ xresponse = [x \in Routes |-> <<>>]
    /\ xlog = [x \in Routes |-> <<>>]
    /\ xcalls = [x \in Routes |-> [fetch |-> <<0>>, upload |-> 0]]

\* part_000:197-276: a further GET on the route, for a tenant with one
\* row, has fetched it and is about to upload
ExportAgain(x) ==
    /\ xpc[x] \in {"idle", "done", "lost"}
    /\ served < MaxRequests
    /\ served' = served + 1
    /\ xpc' = [xpc EXCEPT ![x] = "upload"]
    /\ xreq' = [xreq EXCEPT ![x] = [client |-> "c1", matching |-> 1]]
    /\ page' = [page EXCEPT ![x] = 0]
    /\ csvParts' = [csvParts EXCEPT ![x] = <<0, 1>>]
    /\ headersWritten' = [headersWritten EXCEPT ![x] = TRUE]
    /\ xfileName' = [xfileName EXCEPT ![x] = now]
    /\ xresponse' = [xresponse EXCEPT ![x] = <<>>]
    /\ xlog' = [xlog EXCEPT ![x] = <<>>]
    /\ xcalls' = [xcalls EXCEPT ![x] = [fetch |-> <<0>>, upload |-> 0]]
    /\ UNCHANGED <<uploadVars, buckets, timers, now, stamp, gone, fired, fnVars>>

\* the process terminates and is started again: the pending timers
\* (part_000:119, 211, 327) and the handlers in flight are lost with it
Crash ==
    /\ timers # {}
    /\ timers' = {}
    /\ pc' = [r \in Reqs |-> IF pc[r] \in {"idle", "done"} THEN pc[r] ELSE "unhandled"]
    /\ xpc' = [x \in Routes |-> IF xpc[x] \in {"idle", "done"} THEN xpc[x] ELSE "lost"]
    /\ UNCHANGED <<req, response, calls, loopVars, publishVars, buckets, now, stamp, gone,
                   fired, served, xreq, page, csvParts, headersWritten, xfileName,
                   xresponse, xlog, xcalls, fnVars>>

(***************************************************************************)
(* SpecServe: one request on each of the three routes, the upload request  *)
(* at the start of its publish and the export requests at the start of     *)
(* theirs, on a bucket that holds MaxInitObjs earlier artifacts, the       *)
(* oldest with its timer still pending.                                    *)
(* SpecServeFair adds that a pending timer fires in the end, as it does    *)
(* while the process runs.                                                 *)
(***************************************************************************)
InitServe ==
    /\ FnIdle /\ PublishStart
    /\ buckets = [b \in BucketNames |->
                     IF b = UploadBucket THEN Preexisting(MaxInitObjs) ELSE {}]
    /\ timers = {[bucket |-> UploadBucket, name |-> 1, by |-> 0]}
    /\ now = MaxInitObjs + 1
    /\ stamp = MaxInitObjs
    /\ gone = {}
    /\ fired = EmptyBag
    /\ served = 0
    /\ Fetched

NextServe ==
    \/ WriteFinish(1) \/ Upload(1) \/ List(1) \/ Remove(1) \/ Redirect(1)
    \/ \E x \in Routes : ExportUpload(x)
    \/ TimerFire

SpecServe == InitServe /\ [][NextServe]_vars
SpecServeFair == SpecServe /\ WF_vars(TimerFire)

(***************************************************************************)
(* SpecLeak: the three routes served one request after the other, while    *)
(* the process terminates before a timer fires.  The clock is read when a  *)
(* request names its artifact, so it is enough that it ticks between two   *)
(* requests.                                                               *)
(***************************************************************************)
NextLeak ==
    \/ WriteFinish(1) \/ Upload(1) \/ List(1) \/ Remove(1) \/ Redirect(1)
    \/ (Quiet /\ NextRequest(1))
    \/ \E x \in Routes : ExportUpload(x) \/ (Quiet /\ ExportAgain(x))
    \/ (Quiet /\ Tick) \/ Crash

\* every bucket holds MaxInitObjs artifacts that earlier runs have left
InitLeak ==
    /\ FnIdle /\ PublishStart /\ ExportIdle
    /\ buckets = [b \in BucketNames |-> Preexisting(MaxInitObjs)]
    /\ timers = {}
    /\ now = MaxInitObjs + 1
    /\ stamp = MaxInitObjs
    /\ gone = {}
    /\ fired = EmptyBag
    /\ served = 0

SpecLeak == InitLeak /\ [][NextLeak]_vars

(***************************************************************************)
(* SpecRace: two /upload requests publish at the same time into a bucket   *)
(* that holds MaxInitObjs earlier artifacts.                               *)
(***************************************************************************)
RaceStart ==
    /\ pc = [r \in Reqs |-> "write"]
    /\ req = [r \in Reqs |-> [limit |-> <<>>, file |-> TRUE]]
    /\ limited = [r \in Reqs |-> <<>>]
    /\ results = [r \in Reqs |-> <<>>]
    /\ issued = [r \in Reqs |-> <<>>]
    /\ outcomes = [r \in Reqs |-> <<>>]
    /\ inflight = [r \in Reqs |-> 0]
    /\ fileName = [r \in Reqs |-> 0]
    /\ publicUrl = [r \in Reqs |-> 0]
    /\ listData = [r \in Reqs |-> {}]
    /\ sorted = [r \in Reqs |-> <<>>]
    /\ pruneFailed = [r \in Reqs |-> {}]
    /\ response = [r \in Reqs |-> <<>>]
    /\ calls = [r \in Reqs |-> [query |-> 1, upload |-> 0]]

InitRace ==
    /\ ExportIdle /\ FnIdle /\ RaceStart
    /\ buckets = [b \in BucketNames |->
                     IF b = UploadBucket THEN Preexisting(MaxInitObjs) ELSE {}]
    /\ timers = {}
    /\ now = MaxInitObjs + 1
    /\ stamp = MaxInitObjs
    /\ gone = {}
    /\ fired = EmptyBag
    /\ served = 0

\* Date.now() is read when an artifact is named (part_000:68), so it is
\* enough that the clock ticks while a request is about to name its own
ClockRead == \E r \in Reqs : pc[r] = "write"

NextRace ==
    \/ \E r \in Reqs :
          WriteFinish(r) \/ Upload(r) \/ List(r) \/ Remove(r) \/ Redirect(r)
    \/ TimerFire
    \/ (ClockRead /\ Tick)

SpecRace == InitRace /\ [][NextRace]_vars

(***************************************************************************)
(* SpecCrowd: two /upload requests publish at the same time into an empty  *)
(* bucket, and where the second has ended a further one follows, so that   *)
(* the first request, when it is slow, overlaps with several others.  No   *)
(* timer fires.                                                            *)
(***************************************************************************)
NextCrowd ==
    \/ \E r \in Reqs :
          WriteFinish(r) \/ Upload(r) \/ List(r) \/ Remove(r) \/ Redirect(r)
    \/ NextRequest(2)
    \/ (ClockRead /\ Tick)

InitCrowd == ExportIdle /\ FnIdle /\ RaceStart /\ StoreEmpty
SpecCrowd == InitCrowd /\ [][NextCrowd]_vars

(***************************************************************************)
(* C2: whatever lookups fail, the loop produces one output row per         *)
(* retained row, in the same order, a failed row carries "Not Found", no   *)
(* failed lookup ends the handler, and when the loop is over the handler   *)
(* goes on to write and publish.                                           *)
(***************************************************************************)
C2_RowsSoFar ==
    \A r \in Reqs :
        pc[r] \in {"loop", "lookup", "write"} =>
            /\ Len(results[r]) <= Len(limited[r])
            /\ Len(outcomes[r]) = Len(results[r])
            /\ \A i \in 1..Len(results[r]) :
                  /\ results[r][i].row = limited[r][i]
                  /\ ~outcomes[r][i].ok => results[r][i].phonenumber = NotFound
            /\ pc[r] = "write" => Len(results[r]) = Len(limited[r])

C2_LoopGoesOn ==
    \A r \in Reqs :
        /\ (pc[r] = "lookup" /\ pc'[r] # "lookup") =>
              /\ pc'[r] = "loop"
              /\ Len(results'[r]) = Len(results[r]) + 1
        /\ (pc[r] = "loop" /\ pc'[r] # "loop") =>
              \/ pc'[r] = "lookup" /\ Len(results[r]) < Len(limited[r])
              \/ pc'[r] = "write" /\ Len(results[r]) = Len(limited[r])

C2_PartialFailure == []C2_RowsSoFar /\ [][C2_LoopGoesOn]_vars

\* two rows, the lookup of the first failed, that of the second did not
C2_Witness ==
    /\ pc[1] = "write"
    /\ Len(results[1]) = 2
    /\ ~outcomes[1][1].ok
    /\ outcomes[1][2].ok
    /\ results[1][1].phonenumber = NotFound

(***************************************************************************)
(* C3: within a request at most one lookup is in flight; the lookup of a   *)
(* row starts only when all earlier rows are resolved; the rows are looked *)
(* up once each, in the order of the limited sequence.                     *)
(***************************************************************************)
C3_RowSequential ==
    \A r \in Reqs :
        /\ inflight[r] <= 1
        /\ pc[r] \in {"loop", "lookup", "write"} =>
              /\ Len(issued[r]) = Len(results[r]) + inflight[r]
              /\ Len(issued[r]) <= Len(limited[r])
              /\ \A i \in 1..Len(issued[r]) : issued[r][i] = limited[r][i]
              /\ pc[r] = "write" => issued[r] = limited[r]

\* the second lookup is in flight, the first is resolved
C3_Witness ==
    /\ pc[1] = "lookup"
    /\ Len(results[1]) = 1
    /\ Len(issued[1]) = 2
    /\ inflight[1] = 1

(***************************************************************************)
(* C5: a request whose limit is not a positive integer, or that has no     *)
(* file, is answered 400 when it arrives and nothing else is done for it.  *)
(***************************************************************************)
InvalidInput(q) == LimitNotPositive(parseInt(q.limit)) \/ ~q.file

C5_OnArrival ==
    \A r \in Reqs :
        (pc[r] = "idle" /\ pc'[r] # "idle" /\ InvalidInput(req'[r])) =>
            /\ pc'[r] = "done"
            /\ response'[r] = <<Status(400)>>
            /\ calls'[r] = calls[r]

C5_InvalidRejected == [][C5_OnArrival]_vars

(***************************************************************************)
(* C6: a handler that has come to its end has sent exactly one response.   *)
(***************************************************************************)
C6_OneResponse ==
    \A r \in Reqs : pc[r] \in {"done", "unhandled"} => Len(response[r]) = 1

(***************************************************************************)
(* C7: once the upload has succeeded, the request ends with the redirect   *)
(* to the URL of the uploaded artifact, whatever the listing and the       *)
(* removes of the retention step return.                                   *)
(***************************************************************************)
C7_OnEnd ==
    \A r \in Reqs :
        (pc[r] \in {"list", "prune"} /\ pc'[r] \notin {"list", "prune"}) =>
            /\ pc'[r] = "done"
            /\ response'[r] = <<RedirectTo(publicUrl[r])>>

C7_RetentionNeverFails == [][C7_OnEnd]_vars

(***************************************************************************)
(* C9: for a lookup that succeeded, phonenumber is "Not Found" when the    *)
(* response carries no phone value (absent, null or empty) and "Error"     *)
(* when the value, after the first element of an array is taken, is not a  *)
(* string.                                                                 *)
(***************************************************************************)
FirstOf(v) ==
    IF v.t = "array" /\ v.et # "empty" THEN [t |-> v.et, s |-> v.s, et |-> "-"] ELSE v
NoPhoneValue(v) == v.t \in {"undefined", "null"} \/ (v.t = "string" /\ v.s = <<>>)

C9_Sentinels ==
    \A r \in Reqs :
        \A i \in 1..Len(results[r]) :
            outcomes[r][i].ok =>
                /\ NoPhoneValue(outcomes[r][i].phone) =>
                      results[r][i].phonenumber = NotFound
                /\ (~NoPhoneValue(outcomes[r][i].phone)
                        /\ FirstOf(outcomes[r][i].phone).t # "string") =>
                      results[r][i].phonenumber = ErrorText

(***************************************************************************)
(* C4 as claimed: when the retention step of a publish is over, the bucket *)
(* holds exactly the 3 most recently created artifacts (all of them when   *)
(* fewer exist), the one just uploaded among them.  An artifact that a     *)
(* timer removed meanwhile does not exist any more.                        *)
(***************************************************************************)
Newest(S) == {o \in S : Cardinality({q \in S : q.created > o.created}) < KeepCount}
RetentionOver(r) == pc[r] = "prune" /\ sorted[r] = <<>>
KeepsNewest(r) ==
    /\ buckets[UploadBucket] = {o \in Newest(listData[r]) : o.name \notin gone}
    /\ \E o \in buckets[UploadBucket] : o.name = fileName[r]

FoundNothing(x) ==
    /\ xpc[x] = "done"
    /\ xreq[x].client # ""
    /\ xreq[x].matching = 0
    /\ \A i \in 1..Len(xlog[x]) : xlog[x][i] # "error: fetch"

C8_EmptyDivergence ==
    /\ FoundNothing("leads") =>
          /\ xlog["leads"] = <<"warn: No data found">>
          /\ xresponse["leads"] = <<>>
          /\ buckets[BucketOf("leads")] = {}
    /\ FoundNothing("poc") =>
          /\ xresponse["poc"] = <<Status(500)>>
          /\ buckets[BucketOf("poc")] = {}

(***************************************************************************)
(* C13: the pagination loop of an export over T unchanging rows fetches    *)
(* the pages 0, 1, 2, ... one after the other, goes on exactly while the   *)
(* page just fetched held pageSize rows, and stops on the first short or   *)
(* empty page, after T \div pageSize + 1 fetches; the buffer then holds    *)
(* the header once, followed by the rows 1..T once each, in fetch order.   *)
(***************************************************************************)
FetchOk(x) == \A i \in 1..Len(xlog[x]) : xlog[x][i] # "error: fetch"
LoopLeft(x) == xpc[x] \in {"upload", "done"} /\ xreq[x].client # "" /\ FetchOk(x)

C13_Pagination ==
    \A x \in Routes :
        LET T == xreq[x].matching
        IN /\ xpc[x] = "fetch" =>
                 /\ xcalls[x].fetch = [k \in 1..page[x] |-> k - 1]
                 /\ page[x] * pageSize <= T
                 /\ csvParts[x] = IF page[x] = 0 THEN <<>>
                                  ELSE [k \in 1..(page[x] * pageSize + 1) |-> k - 1]
           /\ LoopLeft(x) =>
                 /\ xcalls[x].fetch = [k \in 1..(T \div pageSize + 1) |-> k - 1]
                 /\ csvParts[x] = IF T = 0 THEN <<>> ELSE [k \in 1..(T + 1) |-> k - 1]

\* an export of exactly MaxPages full pages has left the loop: the last
\* fetch returned an empty page
C13_Witness ==
    \E x \in Routes :
        /\ LoopLeft(x)
        /\ xreq[x].matching = MaxPages * pageSize
        /\ Len(xcalls[x].fetch) = MaxPages + 1
        /\ Len(csvParts[x]) = MaxPages * pageSize + 1

(***************************************************************************)
(* C11: on each of the three routes the 60 s timer of an artifact is set   *)
(* only after the redirect of its request has been sent: a timer that is   *)
(* pending, or whose callback has called remove, belongs to a request      *)
(* that has redirected, and a request that has not redirected has no       *)
(* timer.  (Timers with by = 0 belong to requests served earlier.)         *)
(***************************************************************************)
Redirected(resp) == \E i \in 1..Len(resp) : resp[i].status = 302
OwnerRedirected(t) ==
    IF t.bucket = UploadBucket
    THEN t.by = 0 \/ Redirected(response[t.by])
    ELSE Redirected(xresponse[t.by])

C11_RedirectBeforeTimer ==
    \A t \in timers \cup BagToSet(fired) : OwnerRedirected(t)

\* the timers of the requests of all three routes have fired
C11_Witness ==
    /\ \E t \in BagToSet(fired) : t.bucket = UploadBucket /\ t.by = 1
    /\ \A x \in Routes : \E t \in BagToSet(fired) : t.bucket = BucketOf(x)

(***************************************************************************)
(* C12: while the process runs, every request that has redirected has its  *)
(* timer call remove once in the end, for the name of its own artifact,    *)
(* whether the artifact is still there or not; no timer calls remove       *)
(* twice; and the callback of a timer changes no response and either       *)
(* removes the one artifact or, when remove fails, leaves the buckets.     *)
(***************************************************************************)
OwnTimer(r) == [bucket |-> UploadBucket, name |-> fileName[r], by |-> r]
OwnExportTimer(x) == [bucket |-> BucketOf(x), name |-> xfileName[x], by |-> x]
\* the timers of the requests that left the earlier artifacts
EarlierTimers == {[bucket |-> UploadBucket, name |-> i, by |-> 0] : i \in 1..MaxInitObjs}

C12_AtMostOnce ==
    /\ \A t \in BagToSet(fired) : CopiesIn(t, fired) = 1 /\ t \notin timers
    /\ \A t \in timers \cup BagToSet(fired) :
          IF t.bucket = UploadBucket THEN t.by = 0 \/ t = OwnTimer(t.by)
          ELSE t = OwnExportTimer(t.by)

C12_Callback ==
    fired' # fired =>
        /\ response' = response
        /\ xresponse' = xresponse
        /\ \E t \in timers :
              /\ timers' = timers \ {t}
              /\ \/ buckets' = buckets
                 \/ buckets' = [buckets EXCEPT ![t.bucket] = Removed(@, t.name)]

C12_TimedDeletion ==
    /\ []C12_AtMostOnce
    /\ [][C12_Callback]_vars
    /\ \A r \in Reqs : Redirected(response[r]) ~> (CopiesIn(OwnTimer(r), fired) = 1)
    /\ \A x \in Routes :
          Redirected(xresponse[x]) ~> (CopiesIn(OwnExportTimer(x), fired) = 1)
    /\ \A t \in EarlierTimers : (t \in timers) ~> (CopiesIn(t, fired) = 1)

\* every request has had its timer call remove, and so has the timer of
\* an earlier artifact that the retention step had removed by then
C12_Witness ==
    /\ CopiesIn(OwnTimer(1), fired) = 1
    /\ \E t \in BagToSet(fired) :
          /\ t.bucket = UploadBucket /\ t.by = 0
          /\ t.name \notin gone
          /\ t.name \in {o.name : o \in listData[1]}
          /\ t.name \notin pruneFailed[1]
          /\ \A o \in buckets[UploadBucket] : o.name # t.name
    /\ \A x \in Routes : CopiesIn(OwnExportTimer(x), fired) = 1

(***************************************************************************)
(* C14: when the upload returns an error the request is answered 5xx and   *)
(* ends there: it has called upload once, the bucket and the timers are    *)
(* as before, and nothing follows, neither a listing, nor a remove, nor a  *)
(* redirect, nor a timer.                                                  *)
(***************************************************************************)
Failed(resp) == \E i \in 1..Len(resp) : resp[i].status >= 500

C14_UploadError ==
    /\ \A r \in Reqs :
          (pc[r] = "upload" /\ response'[r] # response[r]) =>
              /\ response'[r] = <<Status(500)>>
              /\ pc'[r] = "done"
              /\ calls'[r].upload = 1
              /\ buckets' = buckets /\ timers' = timers
              /\ listData'[r] = {} /\ sorted'[r] = <<>>
    /\ \A x \in Routes :
          (xpc[x] = "upload" /\ xlog'[x] = Append(xlog[x], "error: upload")) =>
              /\ xresponse'[x] = <<Status(500)>>
              /\ xpc'[x] = "done"
              /\ xcalls'[x].upload = 1
              /\ buckets' = buckets /\ timers' = timers

C14_Ended ==
    /\ \A r \in Reqs :
          Failed(response[r]) =>
              /\ pc[r] = "done"
              /\ ~Redirected(response[r])
              /\ \A t \in timers \cup BagToSet(fired) :
                    t.bucket = UploadBucket => t.by # r
    /\ \A x \in Routes :
          Failed(xresponse[x]) =>
              /\ xpc[x] = "done"
              /\ ~Redirected(xresponse[x])
              /\ \A t \in timers \cup BagToSet(fired) : t.bucket # BucketOf(x)

C14_UploadFailureFatal == []C14_Ended /\ [][C14_UploadError]_vars

\* the upload of all three requests has failed
C14_Witness ==
    /\ pc[1] = "done" /\ response[1] = <<Status(500)>> /\ calls[1].upload = 1
    /\ \A o \in buckets[UploadBucket] : o.name # fileName[1]
    /\ \A x \in Routes :
          /\ xlog[x] = <<"error: upload">>
          /\ xresponse[x] = <<Status(500)>>
          /\ buckets[BucketOf(x)] = {}

(***************************************************************************)
(* C15: no redirect is sent without a public URL: when getPublicUrl gives  *)
(* none, the request is answered 5xx.                                      *)
(***************************************************************************)
C15_UnresolvedFatal ==
    /\ \A r \in Reqs :
          (pc[r] \in {"list", "prune", "done"} /\ publicUrl[r] = 0) =>
              \A i \in 1..Len(response[r]) : response[r][i].status # 302
    /\ \A x \in Routes :
          \A i \in 1..Len(xresponse[x]) :
              xresponse[x][i].status = 302 => xresponse[x][i].url # 0

Pruned(r) ==
    /\ \/ RetentionOver(r)
       \/ pc[r] = "done" /\ Redirected(response[r])
    /\ pruneFailed[r] = {}
    /\ Cardinality(listData[r]) < ListLimit

Redirects(r) == Redirected(response'[r]) /\ ~Redirected(response[r])

C17_OnRedirect ==
    \A r \in Reqs :
        Redirects(r) => \E o \in buckets[UploadBucket] : o.name = fileName[r]

C17_RaceBenign == [][C17_OnRedirect]_vars

(***************************************************************************)
(* C18: the artifact a request redirects to holds the rows of that         *)
(* request, whatever the clock read when the names were made, and the      *)
(* timer of a request removes no artifact that holds the rows of another.  *)
(***************************************************************************)
C18_OnRedirect ==
    \A r \in Reqs :
        Redirects(r) =>
            \A o \in buckets[UploadBucket] : o.name = fileName[r] => o.owner = r

C18_OnTimer ==
    \A t \in timers :
        (fired' # fired /\ timers' = timers \ {t}) =>
            \A o \in buckets[t.bucket] \ buckets'[t.bucket] : o.owner = t.by

C18_Isolation == [][C18_OnRedirect /\ C18_OnTimer]_vars

====
